---- MODULE Spec2Model ----
(***************************************************************************)
(* TreasuryVault (contracts/README.md, lines 606-1030): the multi-owner    *)
(* approval workflow, the time-lock for large transfers, the tracked asset *)
(* balances and the execution of approved actions.                         *)
(*                                                                         *)
(* One transaction of the chain is one step, except executeAction on a     *)
(* contract target: the forwarded call is open between ExecuteAction and   *)
(* CallReturn, and the steps taken in between are the calls the target     *)
(* makes back into the vault.  A transaction that reverts leaves the       *)
(* storage as it was.  `emitted` holds the events of the last transaction. *)
(***************************************************************************)
EXTENDS Integers, Sequences, FiniteSets, TLC

\* ------------------------------------------------------------------------
\* Bounds of the model
\* ------------------------------------------------------------------------
MaxActions == 1
MaxRoleOps == 1
MaxTicks == 1
MaxDeposits == 1
MaxValue == 1
MaxCallbacks == 1
MaxForced == 1
MaxOwners == 3
MaxBalance == 30
MaxLockValue == 3
MaxAssetBalance == 3

\* ------------------------------------------------------------------------
\* Program constants
\* ------------------------------------------------------------------------
LARGE_TX_THRESHOLD == 10
TIME_LOCK_DELAY == 86400

ZERO == "0x0"
DEFAULT_ADMIN_ROLE == "DEFAULT_ADMIN_ROLE"
OWNER_ROLE == "OWNER_ROLE"
EXECUTOR_ROLE == "EXECUTOR_ROLE"
AI_AGENT_ROLE == "AI_AGENT_ROLE"
Roles == {DEFAULT_ADMIN_ROLE, OWNER_ROLE, EXECUTOR_ROLE, AI_AGENT_ROLE}

\* accounts that send transactions; "st" is a contract (a strategy adapter)
Accounts == {"o1", "o2", "st"}
Targets == {ZERO, "st"}
Assets == {ZERO, "tok", "tk2"}
Recipients == {"o2"}
Strategies == {"st"}
Payloads == {"0x"}
ActionTypes == {"SwapTokens"}
Values == 0..MaxValue
DepositAmounts == {1, 11}
OwnerLists == {<<"o1", "o2">>}
Thresholds == 0..3

\* uint256 arithmetic, on the width the model checker can represent
UintMod == 2^24
AddUnchecked(a, b) == (a + b) % UintMod
SubUnchecked(a, b) == (a - b + UintMod) % UintMod
\* the checked product a * b does not fit the width
MulOverflows(a, b) == a > (UintMod - 1) \div b

VARIABLES
    roles,              \* AccessControl: role -> set of holders
    approvalThreshold,
    ownerCount,
    pendingActions,     \* actionId -> Action (the ids ever proposed)
    actionApprovals,    \* actionId -> set of accounts with the flag set
    assetBalances,      \* tracked balance per asset (ZERO = native BNB)
    supportedAssets,    \* the list of tracked assets
    approvedStrategies,
    paused,
    nativeHeld,         \* the BNB the vault really holds
    now,                \* block.timestamp
    frame,              \* the open forwarded call of executeAction, or NoFrame
    emitted,            \* the events of the last transaction
    forwardedCalls,     \* history: actionId -> forwarded calls that were committed
    reverted,           \* history: the last step was a forwarded call that failed
    nTicks, nRoleOps, nDeposits

storage == <<roles, approvalThreshold, ownerCount, pendingActions, actionApprovals,
             assetBalances, supportedAssets, approvedStrategies, paused, nativeHeld>>
counters == <<nTicks, nRoleOps, nDeposits>>
vars == <<roles, approvalThreshold, ownerCount, pendingActions, actionApprovals,
          assetBalances, supportedAssets, approvedStrategies, paused, nativeHeld, now,
          frame, emitted, forwardedCalls, reverted, nTicks, nRoleOps, nDeposits>>

NoFrame == [open |-> FALSE]

\* the frame after one more call into the vault: the calls a target makes
\* back while its forwarded call is open are counted
Called == IF frame.open THEN [frame EXCEPT !.calls = @ + 1] ELSE frame
NoId == <<ZERO, "0x", 0, 0, ZERO>>

\* the storage as a record, to restore when the transaction reverts
Snapshot ==
    [roles |-> roles, pendingActions |-> pendingActions,
     actionApprovals |-> actionApprovals, assetBalances |-> assetBalances,
     supportedAssets |-> supportedAssets, approvedStrategies |-> approvedStrategies, paused |-> paused,
     nativeHeld |-> nativeHeld]

hasRole(role, account) == account \in roles[role]

\* ReentrancyGuard._status == ENTERED
entered == frame.open

\* keccak256(abi.encodePacked(target, data, value, block.timestamp, msg.sender)):
\* injective on its five arguments, the action type is not among them
ActionId(target, data, value, timestamp, sender) ==
    <<target, data, value, timestamp, sender>>

ZeroAction ==
    [target |-> ZERO, value |-> 0, proposedAt |-> 0, executionTime |-> 0,
     approvals |-> 0, executed |-> FALSE, actionType |-> "SwapTokens", data |-> "0x"]

\* pendingActions[actionId] of a Solidity mapping: zero when never written
ActionAt(id) == IF id \in DOMAIN pendingActions THEN pendingActions[id] ELSE ZeroAction
ApprovedBy(id) == IF id \in DOMAIN actionApprovals THEN actionApprovals[id] ELSE {}
ForwardedCalls(id) == IF id \in DOMAIN forwardedCalls THEN forwardedCalls[id] ELSE 0

KnownIds == DOMAIN pendingActions \cup {NoId}

\* the log of the transaction after `evs`: the calls made back into the vault
\* while a forwarded call is open belong to the transaction of executeAction.
\* Of the inherited contracts' events RoleGranted and RoleRevoked are kept,
\* Paused and Unpaused are not.
Log(evs) == IF frame.open THEN emitted \o evs ELSE evs

\* a call that reverts with `err`: the transaction leaves no trace
Revert(op, sender, id, err) ==
    UNCHANGED <<storage, now, emitted, counters>>

\* _isLargeTransaction with `>` for `>=`
_isLargeTransaction_Strict(value) ==
    LET bnbBalance == assetBalances[ZERO] IN
    IF bnbBalance = 0 THEN FALSE
    ELSE (value * 100) \div bnbBalance > LARGE_TX_THRESHOLD

_isLargeTransaction(value) ==
    LET bnbBalance == assetBalances[ZERO] IN
    IF bnbBalance = 0 THEN FALSE
    ELSE (value * 100) \div bnbBalance >= LARGE_TX_THRESHOLD

\* ------------------------------------------------------------------------
\* constructor(_owners, _threshold)
\* ------------------------------------------------------------------------
Range(s) == {s[i] : i \in 1..Len(s)}

constructor(owners, threshold) ==
    /\ Len(owners) # 0
    /\ ~(threshold = 0 \/ threshold > Len(owners))
    /\ roles = [r \in Roles |->
                   IF r = DEFAULT_ADMIN_ROLE THEN {owners[1]}
                   ELSE IF r = OWNER_ROLE THEN Range(owners) ELSE {}]
    /\ approvalThreshold = threshold
    /\ ownerCount = Len(owners)
    /\ pendingActions = <<>>
    /\ actionApprovals = <<>>
    /\ assetBalances = [a \in Assets |-> 0]
    /\ supportedAssets = <<ZERO>>
    /\ approvedStrategies = {}
    /\ paused = FALSE
    /\ nativeHeld = 0
    /\ now = 1
    /\ frame = NoFrame
    /\ emitted = <<>>
    /\ forwardedCalls = <<>>
    /\ reverted = FALSE
    /\ nTicks = 0 /\ nRoleOps = 0 /\ nDeposits = 0

Init ==
    \E owners \in OwnerLists, threshold \in Thresholds :
        constructor(owners, threshold)

\* ------------------------------------------------------------------------
\* AccessControl: grantRole, revokeRole (onlyRole(getRoleAdmin(role)), the
\* admin of every role being DEFAULT_ADMIN_ROLE) and renounceRole
\* ------------------------------------------------------------------------
\* grantRole without onlyRole(getRoleAdmin(role))
grantRole_NoAdminCheck(sender, role, account) ==
    /\ account \notin roles[role] => nRoleOps < MaxRoleOps
    /\ roles' = [roles EXCEPT ![role] = @ \cup {account}]
    /\ nRoleOps' = IF account \in roles[role] THEN nRoleOps ELSE nRoleOps + 1
    /\ emitted' = Log(IF account \in roles[role] THEN <<>>
                       ELSE <<<<"RoleGranted", role, account, sender>>>>)
    /\ UNCHANGED <<approvalThreshold, ownerCount, pendingActions,
                   actionApprovals, assetBalances, supportedAssets,
                   approvedStrategies, paused, nativeHeld, now,
                   nTicks, nDeposits>>

grantRole(sender, role, account) ==
    IF ~hasRole(DEFAULT_ADMIN_ROLE, sender)
    THEN Revert("grantRole", sender, NoId, "Unauthorized")
    ELSE /\ account \notin roles[role] => nRoleOps < MaxRoleOps
         /\ roles' = [roles EXCEPT ![role] = @ \cup {account}]
         /\ nRoleOps' = IF account \in roles[role] THEN nRoleOps ELSE nRoleOps + 1
         /\ emitted' = Log(IF account \in roles[role] THEN <<>>
                            ELSE <<<<"RoleGranted", role, account, sender>>>>)
         /\ UNCHANGED <<approvalThreshold, ownerCount, pendingActions,
                        actionApprovals, assetBalances, supportedAssets,
                        approvedStrategies, paused, nativeHeld, now,
                        nTicks, nDeposits>>

revokeRole(sender, role, account) ==
    IF ~hasRole(DEFAULT_ADMIN_ROLE, sender)
    THEN Revert("revokeRole", sender, NoId, "Unauthorized")
    ELSE /\ account \in roles[role] => nRoleOps < MaxRoleOps
         /\ roles' = [roles EXCEPT ![role] = @ \ {account}]
         /\ nRoleOps' = IF account \in roles[role] THEN nRoleOps + 1 ELSE nRoleOps
         /\ emitted' = Log(IF account \in roles[role]
                            THEN <<<<"RoleRevoked", role, account, sender>>>>
                            ELSE <<>>)
         /\ UNCHANGED <<approvalThreshold, ownerCount, pendingActions,
                        actionApprovals, assetBalances, supportedAssets,
                        approvedStrategies, paused, nativeHeld, now,
                        nTicks, nDeposits>>

\* renounceRole(role, callerConfirmation) with callerConfirmation = msg.sender
renounceRole(sender, role) ==
    /\ sender \in roles[role] => nRoleOps < MaxRoleOps
    /\ roles' = [roles EXCEPT ![role] = @ \ {sender}]
    /\ nRoleOps' = IF sender \in roles[role] THEN nRoleOps + 1 ELSE nRoleOps
    /\ emitted' = Log(IF sender \in roles[role]
                       THEN <<<<"RoleRevoked", role, sender, sender>>>>
                       ELSE <<>>)
    /\ UNCHANGED <<approvalThreshold, ownerCount, pendingActions,
                   actionApprovals, assetBalances, supportedAssets,
                   approvedStrategies, paused, nativeHeld, now,
                   nTicks, nDeposits>>

\* ------------------------------------------------------------------------
\* proposeAction(target, data, value, actionType)   whenNotPaused
\* ------------------------------------------------------------------------
\* proposeAction that also lets the holders of OWNER_ROLE propose
proposeActionError_OwnersToo(sender) ==
    IF paused THEN "EnforcedPause"
    ELSE IF ~hasRole(EXECUTOR_ROLE, sender) /\ ~hasRole(AI_AGENT_ROLE, sender)
            /\ ~hasRole(OWNER_ROLE, sender)
         THEN "Unauthorized"
    ELSE "ok"

proposeActionError(sender) ==
    IF paused THEN "EnforcedPause"
    ELSE IF ~hasRole(EXECUTOR_ROLE, sender) /\ ~hasRole(AI_AGENT_ROLE, sender)
         THEN "Unauthorized"
    ELSE "ok"

proposeAction(sender, target, data, value, actionType) ==
    LET actionId == ActionId(target, data, value, now, sender)
        execTime == IF value > 0 /\ _isLargeTransaction(value)
                    THEN now + TIME_LOCK_DELAY ELSE now
        action   == [target |-> target, data |-> data, value |-> value,
                     proposedAt |-> now, executionTime |-> execTime,
                     approvals |-> 0, executed |-> FALSE, actionType |-> actionType]
        err      == proposeActionError(sender)
    IN
    /\ actionId \in DOMAIN pendingActions
         \/ Cardinality(DOMAIN pendingActions) < MaxActions
    /\ IF err # "ok"
       THEN Revert("proposeAction", sender, actionId, err)
       ELSE /\ pendingActions' =
                  [i \in DOMAIN pendingActions \cup {actionId} |->
                      IF i = actionId THEN action ELSE pendingActions[i]]
            /\ actionApprovals' =
                  [i \in DOMAIN pendingActions \cup {actionId} |-> ApprovedBy(i)]
            /\ emitted' = Log(<<<<"ActionProposed", actionId, actionType, sender>>>>)
            /\ UNCHANGED <<roles, approvalThreshold, ownerCount, assetBalances,
                           supportedAssets, approvedStrategies, paused, nativeHeld,
                           now, counters>>

\* ------------------------------------------------------------------------
\* approveAction(actionId)   onlyRole(OWNER_ROLE)
\* ------------------------------------------------------------------------
\* approveAction without `if (actionApprovals[actionId][msg.sender]) revert`
approveActionError_NoDuplicateCheck(sender, actionId) ==
    LET action == ActionAt(actionId) IN
    IF ~hasRole(OWNER_ROLE, sender) THEN "Unauthorized"
    ELSE IF action.proposedAt = 0 THEN "ActionNotFound"
    ELSE IF action.executed THEN "ActionAlreadyExecuted"
    ELSE "ok"

\* approveAction without the onlyRole(OWNER_ROLE) modifier
approveActionError_NoRoleCheck(sender, actionId) ==
    LET action == ActionAt(actionId) IN
    IF action.proposedAt = 0 THEN "ActionNotFound"
    ELSE IF action.executed THEN "ActionAlreadyExecuted"
    ELSE IF sender \in ApprovedBy(actionId) THEN "AlreadyApproved"
    ELSE "ok"

approveActionError(sender, actionId) ==
    LET action == ActionAt(actionId) IN
    IF ~hasRole(OWNER_ROLE, sender) THEN "Unauthorized"
    ELSE IF action.proposedAt = 0 THEN "ActionNotFound"
    ELSE IF action.executed THEN "ActionAlreadyExecuted"
    ELSE IF sender \in ApprovedBy(actionId) THEN "AlreadyApproved"
    ELSE "ok"

approveAction(sender, actionId) ==
    LET err == approveActionError(sender, actionId) IN
    IF err # "ok"
    THEN Revert("approveAction", sender, actionId, err)
    ELSE /\ actionApprovals' = [actionApprovals EXCEPT ![actionId] = @ \cup {sender}]
         /\ pendingActions' = [pendingActions EXCEPT
                                  ![actionId].approvals = AddUnchecked(@, 1)]
         /\ emitted' = Log(<<<<"ActionApproved", actionId, sender, pendingActions'[actionId].approvals>>>>)
         /\ UNCHANGED <<roles, approvalThreshold, ownerCount, assetBalances,
                        supportedAssets, approvedStrategies, paused, nativeHeld,
                        now, counters>>

\* ------------------------------------------------------------------------
\* executeAction(actionId)   nonReentrant whenNotPaused
\* ------------------------------------------------------------------------
\* executeAction without the time-lock check
executeActionError_NoTimeLock(actionId) ==
    LET action == ActionAt(actionId) IN
    IF entered THEN "ReentrancyGuardReentrantCall"
    ELSE IF paused THEN "EnforcedPause"
    ELSE IF action.proposedAt = 0 THEN "ActionNotFound"
    ELSE IF action.executed THEN "ActionAlreadyExecuted"
    ELSE IF action.approvals < approvalThreshold THEN "InsufficientApprovals"
    ELSE IF action.target # ZERO /\ action.target \notin approvedStrategies
         THEN "UnauthorizedStrategy"
    ELSE "ok"

\* executeAction without the approvals check
executeActionError_NoApprovalCheck(actionId) ==
    LET action == ActionAt(actionId) IN
    IF entered THEN "ReentrancyGuardReentrantCall"
    ELSE IF paused THEN "EnforcedPause"
    ELSE IF action.proposedAt = 0 THEN "ActionNotFound"
    ELSE IF action.executed THEN "ActionAlreadyExecuted"
    ELSE IF now < action.executionTime THEN "TimeLockNotExpired"
    ELSE IF action.target # ZERO /\ action.target \notin approvedStrategies
         THEN "UnauthorizedStrategy"
    ELSE "ok"

\* executeAction with the approvals compared one short of the threshold
executeActionError_OffByOne(actionId) ==
    LET action == ActionAt(actionId) IN
    IF entered THEN "ReentrancyGuardReentrantCall"
    ELSE IF paused THEN "EnforcedPause"
    ELSE IF action.proposedAt = 0 THEN "ActionNotFound"
    ELSE IF action.executed THEN "ActionAlreadyExecuted"
    ELSE IF action.approvals + 1 < approvalThreshold THEN "InsufficientApprovals"
    ELSE IF now < action.executionTime THEN "TimeLockNotExpired"
    ELSE IF action.target # ZERO /\ action.target \notin approvedStrategies
         THEN "UnauthorizedStrategy"
    ELSE "ok"

\* executeAction with nothing that stops a second execution: neither the
\* nonReentrant modifier nor the `action.executed` check
executeActionError_NoSecondExecutionGuard(actionId) ==
    LET action == ActionAt(actionId) IN
    IF paused THEN "EnforcedPause"
    ELSE IF action.proposedAt = 0 THEN "ActionNotFound"
    ELSE IF action.approvals < approvalThreshold THEN "InsufficientApprovals"
    ELSE IF now < action.executionTime THEN "TimeLockNotExpired"
    ELSE IF action.target # ZERO /\ action.target \notin approvedStrategies
         THEN "UnauthorizedStrategy"
    ELSE "ok"

\* executeAction without the check of approvedStrategies
executeActionError_NoWhitelist(actionId) ==
    LET action == ActionAt(actionId) IN
    IF entered THEN "ReentrancyGuardReentrantCall"
    ELSE IF paused THEN "EnforcedPause"
    ELSE IF action.proposedAt = 0 THEN "ActionNotFound"
    ELSE IF action.executed THEN "ActionAlreadyExecuted"
    ELSE IF action.approvals < approvalThreshold THEN "InsufficientApprovals"
    ELSE IF now < action.executionTime THEN "TimeLockNotExpired"
    ELSE "ok"

\* executeAction with the test of approvedStrategies the wrong way round
executeActionError_InvertedWhitelist(actionId) ==
    LET action == ActionAt(actionId) IN
    IF entered THEN "ReentrancyGuardReentrantCall"
    ELSE IF paused THEN "EnforcedPause"
    ELSE IF action.proposedAt = 0 THEN "ActionNotFound"
    ELSE IF action.executed THEN "ActionAlreadyExecuted"
    ELSE IF action.approvals < approvalThreshold THEN "InsufficientApprovals"
    ELSE IF now < action.executionTime THEN "TimeLockNotExpired"
    ELSE IF action.target # ZERO /\ action.target \in approvedStrategies
         THEN "UnauthorizedStrategy"
    ELSE "ok"

\* executeAction with the time-lock still closed at executionTime itself
executeActionError_StrictTimeLock(actionId) ==
    LET action == ActionAt(actionId) IN
    IF entered THEN "ReentrancyGuardReentrantCall"
    ELSE IF paused THEN "EnforcedPause"
    ELSE IF action.proposedAt = 0 THEN "ActionNotFound"
    ELSE IF action.executed THEN "ActionAlreadyExecuted"
    ELSE IF action.approvals < approvalThreshold THEN "InsufficientApprovals"
    ELSE IF now <= action.executionTime THEN "TimeLockNotExpired"
    ELSE IF action.target # ZERO /\ action.target \notin approvedStrategies
         THEN "UnauthorizedStrategy"
    ELSE "ok"

\* executeAction with the time-lock checked before the approvals
executeActionError_TimeLockFirst(actionId) ==
    LET action == ActionAt(actionId) IN
    IF entered THEN "ReentrancyGuardReentrantCall"
    ELSE IF paused THEN "EnforcedPause"
    ELSE IF action.proposedAt = 0 THEN "ActionNotFound"
    ELSE IF action.executed THEN "ActionAlreadyExecuted"
    ELSE IF now < action.executionTime THEN "TimeLockNotExpired"
    ELSE IF action.approvals < approvalThreshold THEN "InsufficientApprovals"
    ELSE IF action.target # ZERO /\ action.target \notin approvedStrategies
         THEN "UnauthorizedStrategy"
    ELSE "ok"

executeActionError(actionId) ==
    LET action == ActionAt(actionId) IN
    IF entered THEN "ReentrancyGuardReentrantCall"
    ELSE IF paused THEN "EnforcedPause"
    ELSE IF action.proposedAt = 0 THEN "ActionNotFound"
    ELSE IF action.executed THEN "ActionAlreadyExecuted"
    ELSE IF action.approvals < approvalThreshold THEN "InsufficientApprovals"
    ELSE IF now < action.executionTime THEN "TimeLockNotExpired"
    ELSE IF action.target # ZERO /\ action.target \notin approvedStrategies
         THEN "UnauthorizedStrategy"
    ELSE "ok"

\* the part of executeAction after the forwarded call has returned `success`
AfterCall(actionId, success) ==
    LET action == ActionAt(actionId) IN
    /\ assetBalances' =
          IF action.value > 0
          THEN [assetBalances EXCEPT ![ZERO] = SubUnchecked(@, action.value)]
          ELSE assetBalances
    /\ emitted' = Log(<<<<"ActionExecuted", actionId, success>>>>)
    /\ forwardedCalls' = [i \in DOMAIN forwardedCalls \cup {actionId} |->
                             IF i = actionId THEN ForwardedCalls(i) + 1
                             ELSE forwardedCalls[i]]
    /\ reverted' = FALSE

\* executeAction restricted to the holders of EXECUTOR_ROLE
executeAction_OnlyExecutor(sender, actionId) ==
    LET err    == executeActionError(actionId)
        action == ActionAt(actionId)
    IN
    IF ~hasRole(EXECUTOR_ROLE, sender)
    THEN Revert("executeAction", sender, actionId, "Unauthorized")
         /\ UNCHANGED <<frame, forwardedCalls, reverted>>
    ELSE IF err # "ok"
    THEN Revert("executeAction", sender, actionId, err)
         /\ UNCHANGED <<frame, forwardedCalls, reverted>>
    ELSE IF action.value > nativeHeld
    \* the vault cannot pay the value: the call fails, and CallFailed reverts
    THEN Revert("executeAction", sender, actionId, "CallFailed")
         /\ UNCHANGED <<frame, forwardedCalls, reverted>>
    ELSE IF action.target = ZERO
    \* no code at the zero address: the call succeeds and nothing calls back
    THEN /\ pendingActions' = [pendingActions EXCEPT ![actionId].executed = TRUE]
         /\ nativeHeld' = nativeHeld - action.value
         /\ AfterCall(actionId, TRUE)
         /\ frame' = frame
         /\ UNCHANGED <<roles, approvalThreshold, ownerCount, actionApprovals,
                        supportedAssets, approvedStrategies, paused, now,
                        counters>>
    \* a contract target: the call is open until CallReturn
    ELSE /\ pendingActions' = [pendingActions EXCEPT ![actionId].executed = TRUE]
         /\ nativeHeld' = nativeHeld - action.value
         /\ frame' = [open |-> TRUE, id |-> actionId, calls |-> 0, saved |-> Snapshot]
         /\ emitted' = <<>>
         /\ reverted' = FALSE
         /\ UNCHANGED <<roles, approvalThreshold, ownerCount, actionApprovals,
                        assetBalances, supportedAssets, approvedStrategies, paused,
                        now, forwardedCalls, counters>>


executeAction(sender, actionId) ==
    LET err    == executeActionError(actionId)
        action == ActionAt(actionId)
    IN
    IF err # "ok"
    THEN Revert("executeAction", sender, actionId, err)
         /\ UNCHANGED <<frame, forwardedCalls, reverted>>
    ELSE IF action.value > nativeHeld
    \* the vault cannot pay the value: the call fails, and CallFailed reverts
    THEN Revert("executeAction", sender, actionId, "CallFailed")
         /\ UNCHANGED <<frame, forwardedCalls, reverted>>
    ELSE IF action.target = ZERO
    \* no code at the zero address: the call succeeds and nothing calls back
    THEN /\ pendingActions' = [pendingActions EXCEPT ![actionId].executed = TRUE]
         /\ nativeHeld' = nativeHeld - action.value
         /\ AfterCall(actionId, TRUE)
         /\ frame' = frame
         /\ UNCHANGED <<roles, approvalThreshold, ownerCount, actionApprovals,
                        supportedAssets, approvedStrategies, paused, now,
                        counters>>
    \* a contract target: the call is open until CallReturn
    ELSE /\ pendingActions' = [pendingActions EXCEPT ![actionId].executed = TRUE]
         /\ nativeHeld' = nativeHeld - action.value
         /\ frame' = [open |-> TRUE, id |-> actionId, calls |-> 0, saved |-> Snapshot]
         /\ emitted' = <<>>
         /\ reverted' = FALSE
         /\ UNCHANGED <<roles, approvalThreshold, ownerCount, actionApprovals,
                        assetBalances, supportedAssets, approvedStrategies, paused,
                        now, forwardedCalls, counters>>

\* the forwarded call returns: on success the debit and the event, on failure
\* `revert CallFailed()` undoes the whole transaction
\* executeAction without `if (!success) revert CallFailed()`
CallReturn_NoRevert(success) ==
    /\ frame.open
    /\ frame' = NoFrame
    /\ AfterCall(frame.id, success)
    /\ UNCHANGED <<roles, approvalThreshold, ownerCount, pendingActions,
                   actionApprovals, supportedAssets, approvedStrategies,
                   paused, nativeHeld, now, counters>>

\* a revert that leaves the action marked executed
CallReturn_KeepsExecuted(success) ==
    /\ frame.open
    /\ frame' = NoFrame
    /\ IF success
       THEN /\ AfterCall(frame.id, TRUE)
            /\ UNCHANGED <<roles, approvalThreshold, ownerCount, pendingActions,
                           actionApprovals, supportedAssets, approvedStrategies,
                           paused, nativeHeld, now, counters>>
       ELSE /\ roles' = frame.saved.roles
            /\ actionApprovals' = frame.saved.actionApprovals
            /\ assetBalances' = frame.saved.assetBalances
            /\ supportedAssets' = frame.saved.supportedAssets
            /\ approvedStrategies' = frame.saved.approvedStrategies
            /\ paused' = frame.saved.paused
            /\ nativeHeld' = frame.saved.nativeHeld
            /\ emitted' = <<>>
            /\ reverted' = TRUE
            /\ UNCHANGED <<approvalThreshold, ownerCount, pendingActions, now,
                           forwardedCalls, counters>>

CallReturn(success) ==
    /\ frame.open
    /\ frame' = NoFrame
    /\ IF success
       THEN /\ AfterCall(frame.id, TRUE)
            /\ UNCHANGED <<roles, approvalThreshold, ownerCount, pendingActions,
                           actionApprovals, supportedAssets, approvedStrategies,
                           paused, nativeHeld, now, counters>>
       ELSE /\ roles' = frame.saved.roles
            /\ pendingActions' = frame.saved.pendingActions
            /\ actionApprovals' = frame.saved.actionApprovals
            /\ assetBalances' = frame.saved.assetBalances
            /\ supportedAssets' = frame.saved.supportedAssets
            /\ approvedStrategies' = frame.saved.approvedStrategies
            /\ paused' = frame.saved.paused
            /\ nativeHeld' = frame.saved.nativeHeld
            /\ emitted' = <<>>
            /\ reverted' = TRUE
            /\ UNCHANGED <<approvalThreshold, ownerCount, now, forwardedCalls, counters>>

\* ------------------------------------------------------------------------
\* receive(), depositBNB(), deposit(token, amount)
\* ------------------------------------------------------------------------
receive(sender, amount) ==
    /\ amount > 0 => nDeposits < MaxDeposits
    /\ assetBalances' = [assetBalances EXCEPT ![ZERO] = AddUnchecked(@, amount)]
    /\ nativeHeld' = nativeHeld + amount
    /\ nDeposits' = IF amount > 0 THEN nDeposits + 1 ELSE nDeposits
    /\ emitted' = Log(<<<<"Deposit", ZERO, amount, sender>>>>)
    /\ UNCHANGED <<roles, approvalThreshold, ownerCount, pendingActions,
                   actionApprovals, supportedAssets, approvedStrategies, paused,
                   now, nTicks, nRoleOps>>

depositBNBError(amount) ==
    IF entered THEN "ReentrancyGuardReentrantCall"
    ELSE IF paused THEN "EnforcedPause"
    ELSE IF amount = 0 THEN "InsufficientBalance"
    ELSE "ok"

depositBNB(sender, amount) ==
    LET err == depositBNBError(amount) IN
    IF err # "ok"
    THEN Revert("depositBNB", sender, NoId, err)
    ELSE /\ nDeposits < MaxDeposits
         /\ assetBalances' = [assetBalances EXCEPT ![ZERO] = AddUnchecked(@, amount)]
         /\ nativeHeld' = nativeHeld + amount
         /\ nDeposits' = nDeposits + 1
         /\ emitted' = Log(<<<<"Deposit", ZERO, amount, sender>>>>)
         /\ UNCHANGED <<roles, approvalThreshold, ownerCount, pendingActions,
                        actionApprovals, supportedAssets, approvedStrategies, paused,
                        now, nTicks, nRoleOps>>

\* transferred: whether the token's transferFrom succeeds
deposit(sender, token, amount, transferred) ==
    LET err == IF depositBNBError(amount) # "ok" THEN depositBNBError(amount)
               ELSE IF ~transferred THEN "SafeERC20FailedOperation"
               ELSE "ok"
    IN
    IF err # "ok"
    THEN Revert("deposit", sender, NoId, err)
    ELSE /\ nDeposits < MaxDeposits
         /\ assetBalances' = [assetBalances EXCEPT ![token] = AddUnchecked(@, amount)]
         /\ nDeposits' = nDeposits + 1
         /\ emitted' = Log(<<<<"Deposit", token, amount, sender>>>>)
         /\ UNCHANGED <<roles, approvalThreshold, ownerCount, pendingActions,
                        actionApprovals, supportedAssets, approvedStrategies, paused,
                        nativeHeld, now, nTicks, nRoleOps>>

\* ------------------------------------------------------------------------
\* approveStrategy, addSupportedAsset, pause, unpause   onlyRole(OWNER_ROLE)
\* ------------------------------------------------------------------------
\* approveStrategy without the onlyRole(OWNER_ROLE) modifier
approveStrategy_NoRoleCheck(sender, strategy) ==
    /\ approvedStrategies' = approvedStrategies \cup {strategy}
    /\ emitted' = Log(<<<<"StrategyApproved", strategy>>>>)
    /\ UNCHANGED <<roles, approvalThreshold, ownerCount, pendingActions,
                   actionApprovals, assetBalances, supportedAssets, paused,
                   nativeHeld, now, counters>>

approveStrategy(sender, strategy) ==
    IF ~hasRole(OWNER_ROLE, sender)
    THEN Revert("approveStrategy", sender, NoId, "Unauthorized")
    ELSE /\ approvedStrategies' = approvedStrategies \cup {strategy}
         /\ emitted' = Log(<<<<"StrategyApproved", strategy>>>>)
         /\ UNCHANGED <<roles, approvalThreshold, ownerCount, pendingActions,
                        actionApprovals, assetBalances, supportedAssets, paused,
                        nativeHeld, now, counters>>

\* addSupportedAsset without the loop that returns on an asset already listed
addSupportedAsset_NoDuplicateCheck(sender, token) ==
    IF ~hasRole(OWNER_ROLE, sender)
    THEN Revert("addSupportedAsset", sender, NoId, "Unauthorized")
    ELSE /\ supportedAssets' = Append(supportedAssets, token)
         /\ emitted' = Log(<<>>)
         /\ UNCHANGED <<roles, approvalThreshold, ownerCount, pendingActions,
                        actionApprovals, assetBalances, approvedStrategies, paused,
                        nativeHeld, now, counters>>

addSupportedAsset(sender, token) ==
    IF ~hasRole(OWNER_ROLE, sender)
    THEN Revert("addSupportedAsset", sender, NoId, "Unauthorized")
    ELSE /\ supportedAssets' =
               IF \E i \in 1..Len(supportedAssets) : supportedAssets[i] = token
               THEN supportedAssets
               ELSE Append(supportedAssets, token)
         /\ emitted' = Log(<<>>)
         /\ UNCHANGED <<roles, approvalThreshold, ownerCount, pendingActions,
                        actionApprovals, assetBalances, approvedStrategies, paused,
                        nativeHeld, now, counters>>

pause(sender) ==
    LET err == IF ~hasRole(OWNER_ROLE, sender) THEN "Unauthorized"
               ELSE IF paused THEN "EnforcedPause" ELSE "ok"
    IN
    IF err # "ok"
    THEN Revert("pause", sender, NoId, err)
    ELSE /\ paused' = TRUE
         /\ emitted' = Log(<<>>)
         /\ UNCHANGED <<roles, approvalThreshold, ownerCount, pendingActions,
                        actionApprovals, assetBalances, supportedAssets,
                        approvedStrategies, nativeHeld, now, counters>>

unpause(sender) ==
    LET err == IF ~hasRole(OWNER_ROLE, sender) THEN "Unauthorized"
               ELSE IF ~paused THEN "ExpectedPause" ELSE "ok"
    IN
    IF err # "ok"
    THEN Revert("unpause", sender, NoId, err)
    ELSE /\ paused' = FALSE
         /\ emitted' = Log(<<>>)
         /\ UNCHANGED <<roles, approvalThreshold, ownerCount, pendingActions,
                        actionApprovals, assetBalances, supportedAssets,
                        approvedStrategies, nativeHeld, now, counters>>

\* ------------------------------------------------------------------------
\* emergencyWithdraw(token, to, amount)   nonReentrant onlyRole(OWNER_ROLE)
\* delivered: whether the transfer to `to` succeeds
\* ------------------------------------------------------------------------
\* emergencyWithdraw without `if (assetBalances[token] < amount) revert`
emergencyWithdrawError_NoBalanceCheck(sender, token, amount, delivered) ==
    IF entered THEN "ReentrancyGuardReentrantCall"
    ELSE IF ~hasRole(OWNER_ROLE, sender) THEN "Unauthorized"
    ELSE IF token = ZERO /\ (amount > nativeHeld \/ ~delivered) THEN "CallFailed"
    ELSE IF token # ZERO /\ ~delivered THEN "SafeERC20FailedOperation"
    ELSE "ok"

emergencyWithdrawError(sender, token, amount, delivered) ==
    IF entered THEN "ReentrancyGuardReentrantCall"
    ELSE IF ~hasRole(OWNER_ROLE, sender) THEN "Unauthorized"
    ELSE IF assetBalances[token] < amount THEN "InsufficientBalance"
    ELSE IF token = ZERO /\ (amount > nativeHeld \/ ~delivered) THEN "CallFailed"
    ELSE IF token # ZERO /\ ~delivered THEN "SafeERC20FailedOperation"
    ELSE "ok"

emergencyWithdraw(sender, token, to, amount, delivered) ==
    LET err == emergencyWithdrawError(sender, token, amount, delivered) IN
    IF err # "ok"
    THEN Revert("emergencyWithdraw", sender, NoId, err)
    ELSE /\ assetBalances' = [assetBalances EXCEPT ![token] = SubUnchecked(@, amount)]
         /\ nativeHeld' = IF token = ZERO THEN nativeHeld - amount ELSE nativeHeld
         /\ emitted' = Log(<<<<"EmergencyWithdraw", token, to, amount>>>>)
         /\ UNCHANGED <<roles, approvalThreshold, ownerCount, pendingActions,
                        actionApprovals, supportedAssets, approvedStrategies, paused,
                        now, counters>>

\* ------------------------------------------------------------------------
\* getAllocation()   view
\* ------------------------------------------------------------------------
RECURSIVE SumBalances(_)
\* totalBalance after the first i entries of supportedAssets
SumBalances(i) ==
    IF i = 0 THEN 0 ELSE SumBalances(i - 1) + assetBalances[supportedAssets[i]]

\* getAllocation with the share in percent instead of basis points
getAllocation_Percent ==
    LET len          == Len(supportedAssets)
        totalBalance == SumBalances(len)
    IN
    IF totalBalance >= UintMod THEN [panic |-> TRUE, items |-> <<>>]
    ELSE IF totalBalance > 0
            /\ \E i \in 1..len : MulOverflows(assetBalances[supportedAssets[i]], 100)
         THEN [panic |-> TRUE, items |-> <<>>]
    ELSE [panic |-> FALSE, items |-> [i \in 1..len |->
             LET asset == supportedAssets[i]
                 bal   == assetBalances[asset]
             IN [asset |-> asset, amount |-> bal,
                 percentage |-> IF totalBalance > 0
                                THEN (bal * 100) \div totalBalance ELSE 0,
                 valueUSD |-> 0]]]

\* the items, or a panic when the checked `totalBalance +=` or `bal * 10_000`
\* overflows
getAllocation ==
    LET len          == Len(supportedAssets)
        totalBalance == SumBalances(len)
    IN
    IF totalBalance >= UintMod THEN [panic |-> TRUE, items |-> <<>>]
    ELSE IF totalBalance > 0
            /\ \E i \in 1..len : MulOverflows(assetBalances[supportedAssets[i]], 10000)
         THEN [panic |-> TRUE, items |-> <<>>]
    ELSE [panic |-> FALSE, items |-> [i \in 1..len |->
             LET asset == supportedAssets[i]
                 bal   == assetBalances[asset]
             IN [asset |-> asset, amount |-> bal,
                 percentage |-> IF totalBalance > 0
                                THEN (bal * 10000) \div totalBalance ELSE 0,
                 valueUSD |-> 0]]]

\* ------------------------------------------------------------------------
\* The environment: the clock
\* ------------------------------------------------------------------------
Tick(d) ==
    /\ ~frame.open
    /\ nTicks < MaxTicks
    /\ now' = now + d
    /\ nTicks' = nTicks + 1
    /\ emitted' = <<>>
    /\ reverted' = FALSE
    /\ UNCHANGED <<storage, frame, forwardedCalls, nRoleOps, nDeposits>>

\* BNB that reaches the vault without a call into it (selfdestruct of another
\* contract, a block reward): receive() does not run, nothing is credited
ForceSend(amount) ==
    /\ ~frame.open
    /\ nativeHeld < MaxForced
    /\ nativeHeld' = nativeHeld + amount
    /\ emitted' = <<>>
    /\ reverted' = FALSE
    /\ UNCHANGED <<roles, approvalThreshold, ownerCount, pendingActions,
                   actionApprovals, assetBalances, supportedAssets,
                   approvedStrategies, paused, now, frame, forwardedCalls,
                   counters>>

TickSteps == {1, TIME_LOCK_DELAY}
\* the roles handed out after construction: a proposer of each kind, the
\* strategy as proposer and as owner, a second administrator
Grants == {<<EXECUTOR_ROLE, "o1">>, <<EXECUTOR_ROLE, "st">>, <<AI_AGENT_ROLE, "o2">>,
           <<OWNER_ROLE, "st">>, <<DEFAULT_ADMIN_ROLE, "o2">>}
Amounts == {0} \cup DepositAmounts

\* while a forwarded call is open, the calls into the vault come from its target
Senders == IF frame.open THEN {ActionAt(frame.id).target} ELSE Accounts

\* one call into the vault: a transaction of its own, or a call made back by
\* the target of the open forwarded call
Step(call) ==
    /\ frame.open => frame.calls < MaxCallbacks
    /\ call
    /\ frame' = IF storage' = storage /\ emitted' = emitted THEN frame ELSE Called
    /\ reverted' = IF storage' = storage /\ emitted' = emitted THEN reverted ELSE FALSE
    /\ UNCHANGED forwardedCalls

GrantRole == \E s \in Senders, g \in Grants : Step(grantRole(s, g[1], g[2]))
\* revoking a role from an account that does not hold it changes nothing
RevokeRole ==
    \E s \in Senders, r \in Roles :
        \E a \in roles[r] : Step(revokeRole(s, r, a))
RenounceRole == \E s \in Senders, r \in Roles : Step(renounceRole(s, r))
ProposeAction ==
    \E s \in Senders, t \in Targets, d \in Payloads, v \in Values, ty \in ActionTypes :
        Step(proposeAction(s, t, d, v, ty))
ApproveAction == \E s \in Senders, id \in KnownIds : Step(approveAction(s, id))
ExecuteAction ==
    \E s \in Senders, id \in KnownIds :
        /\ frame.open => frame.calls < MaxCallbacks
        /\ executeAction(s, id)
Receive == \E s \in Senders, amt \in Amounts : Step(receive(s, amt))
DepositBNB == \E s \in Senders, amt \in Amounts : Step(depositBNB(s, amt))
ApproveStrategy == \E s \in Senders, t \in Strategies : Step(approveStrategy(s, t))
Pause == \E s \in Senders : Step(pause(s))
Unpause == \E s \in Senders : Step(unpause(s))
EmergencyWithdraw ==
    \E s \in Senders, to \in Recipients, ok \in BOOLEAN :
        \E amt \in {0, assetBalances[ZERO], assetBalances[ZERO] + 1} :
            Step(emergencyWithdraw(s, ZERO, to, amt, ok))
ForwardedCallReturns == \E ok \in BOOLEAN : CallReturn(ok)
ClockAdvances == \E d \in TickSteps : Tick(d)

\* the governance and the native ledger
Next ==
    \/ GrantRole
    \/ RevokeRole
    \/ RenounceRole
    \/ ProposeAction
    \/ ApproveAction
    \/ ExecuteAction
    \/ ForwardedCallReturns
    \/ Receive
    \/ DepositBNB
    \/ ApproveStrategy
    \/ Pause
    \/ Unpause
    \/ EmergencyWithdraw
    \/ ClockAdvances

Spec == Init /\ [][Next]_vars

\* ------------------------------------------------------------------------
\* The native ledger when BNB can also reach the vault without a call
\* ------------------------------------------------------------------------
ForcedTransfer == ForceSend(1)

NextLedger ==
    \/ GrantRole
    \/ ProposeAction
    \/ ApproveAction
    \/ ExecuteAction
    \/ ForwardedCallReturns
    \/ ApproveStrategy
    \/ DepositBNB
    \/ EmergencyWithdraw
    \/ ForcedTransfer

SpecLedger == Init /\ [][NextLedger]_vars

\* ------------------------------------------------------------------------
\* The constructor over every owner list up to MaxOwners entries, repeated
\* entries included, and every threshold; afterwards no role changes
\* ------------------------------------------------------------------------
AnyOwnerLists == UNION {[1..n -> Accounts] : n \in 0..MaxOwners}
AnyThresholds == 0..(MaxOwners + 1)

InitConstructor ==
    \E owners \in AnyOwnerLists, threshold \in AnyThresholds :
        constructor(owners, threshold)

NextConstructor ==
    \/ Receive
    \/ ApproveStrategy
    \/ Pause
    \/ Unpause

SpecConstructor == InitConstructor /\ [][NextConstructor]_vars

\* ------------------------------------------------------------------------
\* Owners and approvals: a vault deployed as in the test suite, where the
\* administrator has granted EXECUTOR_ROLE to the first owner, under role
\* changes, proposals, approvals and executions
\* ------------------------------------------------------------------------
InitOwners ==
    \E owners \in OwnerLists, threshold \in Thresholds :
        /\ Len(owners) # 0
        /\ ~(threshold = 0 \/ threshold > Len(owners))
        /\ roles = [r \in Roles |->
                       IF r = DEFAULT_ADMIN_ROLE THEN {owners[1]}
                       ELSE IF r = OWNER_ROLE THEN Range(owners)
                       ELSE IF r = EXECUTOR_ROLE THEN {owners[1]} ELSE {}]
        /\ approvalThreshold = threshold
        /\ ownerCount = Len(owners)
        /\ pendingActions = <<>>
        /\ actionApprovals = <<>>
        /\ assetBalances = [a \in Assets |-> 0]
        /\ supportedAssets = <<ZERO>>
        /\ approvedStrategies = {}
        /\ paused = FALSE
        /\ nativeHeld = 0
        /\ now = 1
        /\ frame = NoFrame
        /\ emitted = <<>>
        /\ forwardedCalls = <<>>
        /\ reverted = FALSE
        /\ nTicks = 0 /\ nRoleOps = 0 /\ nDeposits = 0

NextOwners ==
    \/ GrantRole
    \/ RevokeRole
    \/ RenounceRole
    \/ ProposeAction
    \/ ApproveAction
    \/ ExecuteAction

SpecOwners == InitOwners /\ [][NextOwners]_vars

\* ------------------------------------------------------------------------
\* The time-lock policy of proposeAction over a range of balances and values
\* ------------------------------------------------------------------------
DepositAny ==
    \E s \in Senders, amt \in 1..MaxBalance : Step(depositBNB(s, amt))
ProposeAny ==
    \E s \in Senders, t \in Targets, d \in Payloads, v \in 0..MaxLockValue,
       ty \in ActionTypes :
        Step(proposeAction(s, t, d, v, ty))

NextTimeLock ==
    \/ GrantRole
    \/ DepositAny
    \/ ProposeAny

SpecTimeLock == Init /\ [][NextTimeLock]_vars

\* ------------------------------------------------------------------------
\* The asset ledger: a vault that holds any balances up to MaxAssetBalance of
\* BNB and of two tokens, one token balance possibly at the top of the uint
\* range, under registrations, deposits, withdrawals and pauses
\* ------------------------------------------------------------------------
Tokens == Assets \ {ZERO}
NativeBalances == 0..MaxAssetBalance
TokenBalances == (0..MaxAssetBalance) \cup {UintMod - 1}

InitAssets ==
    \E owners \in OwnerLists, bnb \in NativeBalances,
       held \in [Tokens -> TokenBalances] :
        /\ roles = [r \in Roles |->
                       IF r = DEFAULT_ADMIN_ROLE THEN {owners[1]}
                       ELSE IF r = OWNER_ROLE THEN Range(owners) ELSE {}]
        /\ approvalThreshold = Len(owners)
        /\ ownerCount = Len(owners)
        /\ pendingActions = <<>>
        /\ actionApprovals = <<>>
        /\ assetBalances = [a \in Assets |-> IF a = ZERO THEN bnb ELSE held[a]]
        /\ supportedAssets = <<ZERO>>
        /\ approvedStrategies = {}
        /\ paused = FALSE
        /\ nativeHeld = bnb
        /\ now = 1
        /\ frame = NoFrame
        /\ emitted = <<>>
        /\ forwardedCalls = <<>>
        /\ reverted = FALSE
        /\ nTicks = 0 /\ nRoleOps = 0 /\ nDeposits = 0

AddSupportedAsset ==
    \E s \in Senders, token \in Assets : Step(addSupportedAsset(s, token))
\* address(0) has no code: safeTransferFrom on it fails
DepositToken ==
    \E s \in Senders, token \in Assets, amt \in 0..2 :
        \E transferred \in IF token = ZERO THEN {FALSE} ELSE BOOLEAN :
            Step(deposit(s, token, amt, transferred))
\* nothing, the whole balance, or one unit more than the balance
EmergencyWithdrawAsset ==
    \E s \in Senders, token \in Assets, to \in Recipients, ok \in BOOLEAN :
        \E amt \in {0, assetBalances[token]}
                      \cup {a \in {assetBalances[token] + 1} : a < UintMod} :
            Step(emergencyWithdraw(s, token, to, amt, ok))

NextAssets ==
    \/ AddSupportedAsset
    \/ DepositToken
    \/ DepositBNB
    \/ Receive
    \/ EmergencyWithdrawAsset
    \/ Pause
    \/ Unpause

SpecAssets == InitAssets /\ [][NextAssets]_vars

\* ------------------------------------------------------------------------
\* Properties
\* ------------------------------------------------------------------------
\* the forwarded call of the open executeAction has just returned
CallReturned == frame.open /\ ~frame'.open

\* C1: no action is executed twice: the forwarded call of an actionId is
\* committed at most once
C1_ForwardedAtMostOnce ==
    \A id \in DOMAIN forwardedCalls : forwardedCalls[id] <= 1

\* C2: an executed action was executed at or after its executionTime; while
\* the vault is neither paused nor inside a forwarded call, executeAction on
\* an unexecuted action that has its approvals fails with TimeLockNotExpired
\* before that time
C2_TimeLock ==
    \A id \in DOMAIN pendingActions :
        LET action == pendingActions[id] IN
        /\ action.executed => now >= action.executionTime
        /\ (/\ ~action.executed
            /\ action.approvals >= approvalThreshold
            /\ now < action.executionTime
            /\ ~paused /\ ~entered)
           => executeActionError(id) = "TimeLockNotExpired"

\* C2 as stated: before executionTime executeAction fails with
\* TimeLockNotExpired whenever the approvals are there
C2_AsStated ==
    \A id \in DOMAIN pendingActions :
        LET action == pendingActions[id] IN
        /\ action.executed => now >= action.executionTime
        /\ (/\ ~action.executed
            /\ action.approvals >= approvalThreshold
            /\ now < action.executionTime)
           => executeActionError(id) = "TimeLockNotExpired"

C2_Witness ==
    \E id \in DOMAIN pendingActions :
        LET action == pendingActions[id] IN
        /\ ~action.executed
        /\ action.executionTime = action.proposedAt + TIME_LOCK_DELAY
        /\ action.approvals >= approvalThreshold
        /\ now < action.executionTime
        /\ executeActionError(id) = "TimeLockNotExpired"

\* C3: an executed action had approvals >= approvalThreshold; while the
\* vault is neither paused nor inside a forwarded call, executeAction on a
\* stored, unexecuted action with approvals < approvalThreshold fails with
\* InsufficientApprovals
C3_Threshold ==
    \A id \in DOMAIN pendingActions :
        LET action == pendingActions[id] IN
        /\ action.executed => action.approvals >= approvalThreshold
        /\ (/\ ~action.executed
            /\ action.approvals < approvalThreshold
            /\ ~paused /\ ~entered)
           => executeActionError(id) = "InsufficientApprovals"

\* C3 as stated: with approvals < approvalThreshold executeAction fails with
\* InsufficientApprovals
C3_AsStated ==
    \A id \in DOMAIN pendingActions :
        LET action == pendingActions[id] IN
        (~action.executed /\ action.approvals < approvalThreshold)
           => executeActionError(id) = "InsufficientApprovals"

C3_Witness ==
    \E id \in DOMAIN pendingActions :
        /\ approvalThreshold = 2
        /\ pendingActions[id].approvals = 1
        /\ ~pendingActions[id].executed
        /\ executeActionError(id) = "InsufficientApprovals"

\* C4: every executed action is approved by at least approvalThreshold
\* distinct accounts, and every account that becomes an approver holds
\* OWNER_ROLE when it approves
C4_OwnerApprovals ==
    [][\A id \in DOMAIN pendingActions' :
          /\ pendingActions'[id].executed
                => Cardinality(actionApprovals'[id]) >= approvalThreshold'
          /\ ~reverted'
                => \A who \in actionApprovals'[id] \ ApprovedBy(id) :
                       hasRole(OWNER_ROLE, who)]_vars

C4_Witness ==
    \E id \in DOMAIN pendingActions :
        /\ ~frame.open
        /\ approvalThreshold = 2
        /\ pendingActions[id].executed
        /\ Cardinality(ApprovedBy(id)) = 2
        /\ ForwardedCalls(id) = 1

\* C5: an account that has approved an action cannot approve it again: its
\* approveAction fails, with AlreadyApproved as long as it holds OWNER_ROLE
\* and the action is not executed
C5_ApproveOnce ==
    \A id \in DOMAIN actionApprovals :
        \A who \in actionApprovals[id] :
            /\ approveActionError(who, id) # "ok"
            /\ (hasRole(OWNER_ROLE, who) /\ ~ActionAt(id).executed)
                  => approveActionError(who, id) = "AlreadyApproved"

\* C5 as stated: every later approveAction of that account fails with
\* AlreadyApproved
C5_AsStated ==
    \A id \in DOMAIN actionApprovals :
        \A who \in actionApprovals[id] :
            approveActionError(who, id) = "AlreadyApproved"

C5_Witness ==
    \E id \in DOMAIN actionApprovals :
        \E who \in actionApprovals[id] :
            /\ pendingActions[id].approvals = 1
            /\ ~pendingActions[id].executed
            /\ approveActionError(who, id) = "AlreadyApproved"

C7_EffectsBeforeCall ==
    (frame.open /\ frame.calls = 0) =>
        /\ pendingActions[frame.id].executed
        /\ assetBalances[ZERO] =
              SubUnchecked(frame.saved.assetBalances[ZERO], ActionAt(frame.id).value)

\* C8: while the forwarded call is open an executeAction with the same
\* actionId fails, nothing called back commits a forwarded call or debits the
\* native balance, and a call that returns with success commits one forwarded
\* call and one debit of the value
C8_NoReentrantExecute ==
    /\ [](frame.open => executeActionError(frame.id) # "ok")
    /\ [][(frame.open /\ frame'.open) =>
              /\ forwardedCalls' = forwardedCalls
              /\ assetBalances'[ZERO] >= assetBalances[ZERO]]_vars
    /\ [][(CallReturned /\ ~reverted') =>
              /\ forwardedCalls'[frame.id] = ForwardedCalls(frame.id) + 1
              /\ assetBalances'[ZERO] =
                    SubUnchecked(assetBalances[ZERO], ActionAt(frame.id).value)]_vars

C8_Witness ==
    /\ frame.open
    /\ frame.calls = 1
    /\ ActionAt(frame.id).value > 0
    /\ executeActionError(frame.id) = "ReentrancyGuardReentrantCall"

\* C9: a successful proposeAction never returns the id of an action that is
\* already stored
C9_NoCollision ==
    [][\A s \in Accounts, t \in Targets, d \in Payloads, v \in Values,
          ty \in ActionTypes :
          (~frame.open /\ ~frame'.open /\ proposeActionError(s) = "ok"
              /\ proposeAction(s, t, d, v, ty))
          => ActionId(t, d, v, now, s) \notin DOMAIN pendingActions]_vars

\* C10: outside a forwarded call, an executed action stays stored, executed
\* and unchanged in every field
C10_ExecutedIsTerminal ==
    [][\A id \in DOMAIN pendingActions :
          (~frame.open /\ pendingActions[id].executed)
          => /\ id \in DOMAIN pendingActions'
             /\ pendingActions'[id] = pendingActions[id]]_vars

\* C11: a call is forwarded only to the zero address or to a target that is
\* in approvedStrategies when executeAction runs, and the whitelist never
\* stops an action whose target is the zero address
C11_WhitelistedTarget ==
    /\ [](frame.open =>
             ActionAt(frame.id).target \in frame.saved.approvedStrategies)
    /\ [](\A id \in DOMAIN pendingActions :
             pendingActions[id].target = ZERO
                => executeActionError(id) # "UnauthorizedStrategy")
    /\ [][\A id \in DOMAIN forwardedCalls' :
             forwardedCalls'[id] > ForwardedCalls(id)
                => \/ ActionAt(id).target = ZERO
                   \/ ActionAt(id).target \in approvedStrategies]_vars

C11_Witness ==
    \E id \in DOMAIN pendingActions :
        /\ pendingActions[id].target = ZERO
        /\ pendingActions[id].executed
        /\ ForwardedCalls(id) = 1
        /\ approvedStrategies = {}

\* C12: executeAction on a stored action whose target is not the zero
\* address and not in approvedStrategies never succeeds; it fails with
\* UnauthorizedStrategy once the approvals and the time-lock are satisfied
\* and the vault is neither paused nor inside a forwarded call
C12_NotWhitelisted ==
    \A id \in DOMAIN pendingActions :
        LET action == pendingActions[id] IN
        (action.target # ZERO /\ action.target \notin approvedStrategies)
        => /\ executeActionError(id) # "ok"
           /\ (/\ action.approvals >= approvalThreshold
               /\ now >= action.executionTime
               /\ ~paused /\ ~entered)
              => executeActionError(id) = "UnauthorizedStrategy"

\* C12 as stated: the error is UnauthorizedStrategy whatever the approvals
\* and the time-lock
C12_AsStated ==
    \A id \in DOMAIN pendingActions :
        LET action == pendingActions[id] IN
        (action.target # ZERO /\ action.target \notin approvedStrategies)
        => executeActionError(id) = "UnauthorizedStrategy"

C12_Witness ==
    \E id \in DOMAIN pendingActions :
        /\ pendingActions[id].target # ZERO
        /\ pendingActions[id].target \notin approvedStrategies
        /\ pendingActions[id].approvals >= approvalThreshold
        /\ executeActionError(id) = "UnauthorizedStrategy"

C14_TimeLockFixed ==
    [][\A id \in DOMAIN pendingActions :
          ~frame.open
          => /\ id \in DOMAIN pendingActions'
             /\ pendingActions'[id].executionTime
                   = pendingActions[id].executionTime]_vars

C16_DebitWithinBalance ==
    [][\A id \in DOMAIN forwardedCalls' :
          forwardedCalls'[id] > ForwardedCalls(id)
          => /\ ActionAt(id).value <= assetBalances[ZERO]
             /\ assetBalances'[ZERO] = assetBalances[ZERO] - ActionAt(id).value]_vars

\* C17: some account holds OWNER_ROLE, and approvalThreshold is at least 1
\* and at most the number of accounts that hold OWNER_ROLE
C17_ThresholdSatisfiable ==
    /\ roles[OWNER_ROLE] # {}
    /\ 1 <= approvalThreshold
    /\ approvalThreshold <= Cardinality(roles[OWNER_ROLE])

\* C18: after the constructor the owner list was not empty, 1 <= threshold
\* <= number of owners supplied, every supplied owner holds OWNER_ROLE, one
\* account (an owner) holds DEFAULT_ADMIN_ROLE, and the threshold is at most
\* the number of distinct accounts that hold OWNER_ROLE
C18_Initialization ==
    /\ ownerCount >= 1
    /\ 1 <= approvalThreshold /\ approvalThreshold <= ownerCount
    /\ roles[OWNER_ROLE] # {}
    /\ Cardinality(roles[DEFAULT_ADMIN_ROLE]) = 1
    /\ roles[DEFAULT_ADMIN_ROLE] \subseteq roles[OWNER_ROLE]
    /\ approvalThreshold <= Cardinality(roles[OWNER_ROLE])

\* C19: the approvals of a stored action never exceed ownerCount
C19_ApprovalsWithinOwnerCount ==
    \A id \in DOMAIN pendingActions : pendingActions[id].approvals <= ownerCount

C21_NonOwnerApprove ==
    /\ [](\A s \in Accounts, id \in KnownIds :
             ~hasRole(OWNER_ROLE, s) => approveActionError(s, id) = "Unauthorized")
    /\ [][~reverted' =>
             \A id \in DOMAIN pendingActions' :
                /\ \A who \in ApprovedBy(id)' \ ApprovedBy(id) : hasRole(OWNER_ROLE, who)
                /\ (id \in DOMAIN pendingActions
                      /\ pendingActions'[id].approvals > pendingActions[id].approvals)
                   => \E who \in ApprovedBy(id)' \ ApprovedBy(id) :
                         hasRole(OWNER_ROLE, who)]_vars

\* an owner has approved and then lost OWNER_ROLE, next to an account that
\* never held it: both are refused
C21_Witness ==
    \E id \in DOMAIN pendingActions :
        /\ pendingActions[id].approvals = 1
        /\ ~pendingActions[id].executed
        /\ \E s \in ApprovedBy(id) :
              ~hasRole(OWNER_ROLE, s) /\ approveActionError(s, id) = "Unauthorized"
        /\ ~hasRole(OWNER_ROLE, "st") /\ approveActionError("st", id) = "Unauthorized"

\* C22: approveAction on an executed action and on an id never proposed
\* changes nothing, so the approvals counter and the approver set of an
\* action stay as they are from the moment it is executed
C22_ApprovalsFrozen ==
    [][(~frame.open /\ ~frame'.open) =>
          \A id \in DOMAIN pendingActions :
             pendingActions[id].executed =>
                /\ pendingActions'[id].approvals = pendingActions[id].approvals
                /\ ApprovedBy(id)' = ApprovedBy(id)]_vars

\* the event of AccessControl that closes the log
LastRoleEvent ==
    IF Len(emitted) > 0 /\ emitted[Len(emitted)][1] \in {"RoleGranted", "RoleRevoked"}
    THEN emitted[Len(emitted)]
    ELSE <<"none", DEFAULT_ADMIN_ROLE, ZERO, ZERO>>

\* C23: grantRole and revokeRole of an account without DEFAULT_ADMIN_ROLE
\* leave the role mapping as it was: the holders of a role change only by
\* grantRole or revokeRole sent by an administrator or by renounceRole of the
\* holder itself (or when a failed forwarded call is rolled back)
C23_RoleChanges ==
    [][(roles' # roles /\ ~reverted') =>
          LET e == LastRoleEvent' IN
          \/ /\ e[1] = "RoleGranted"
             /\ hasRole(DEFAULT_ADMIN_ROLE, e[4])
             /\ roles' = [roles EXCEPT ![e[2]] = @ \cup {e[3]}]
          \/ /\ e[1] = "RoleRevoked"
             /\ hasRole(DEFAULT_ADMIN_ROLE, e[4]) \/ e[4] = e[3]
             /\ roles' = [roles EXCEPT ![e[2]] = @ \ {e[3]}]]_vars

\* C23 as stated: the holders of a role change only by grantRole or
\* revokeRole sent by an administrator
C23_AsStated ==
    [][(roles' # roles /\ ~reverted') =>
          LET e == LastRoleEvent' IN
          /\ e[1] \in {"RoleGranted", "RoleRevoked"}
          /\ hasRole(DEFAULT_ADMIN_ROLE, e[4])]_vars

\* the administrator has granted a role to an account that is no
\* administrator itself
C23_Witness ==
    /\ nRoleOps = 1
    /\ hasRole(AI_AGENT_ROLE, "o2")
    /\ ~hasRole(DEFAULT_ADMIN_ROLE, "o2")
    /\ roles[DEFAULT_ADMIN_ROLE] = {"o1"}

\* C24: approveStrategy of an account without OWNER_ROLE fails and leaves the
\* whitelist as it was; a target enters the whitelist only by approveStrategy
\* of a holder of OWNER_ROLE
C24_WhitelistByOwner ==
    /\ [][\A s \in Accounts, t \in Strategies :
             (~hasRole(OWNER_ROLE, s) /\ approveStrategy(s, t))
             => UNCHANGED <<approvedStrategies, emitted>>]_vars
    /\ [][(approvedStrategies' # approvedStrategies /\ ~reverted') =>
             \E s \in Senders, t \in Strategies :
                /\ hasRole(OWNER_ROLE, s)
                /\ approveStrategy(s, t)
                /\ approvedStrategies' = approvedStrategies \cup {t}]_vars

\* an owner has whitelisted the strategy, which is no owner itself
C24_Witness ==
    /\ approvedStrategies = {"st"}
    /\ emitted = <<<<"StrategyApproved", "st">>>>
    /\ ~hasRole(OWNER_ROLE, "st")
    /\ \E s \in Accounts : hasRole(OWNER_ROLE, s)

RECURSIVE SumPercentages(_, _)
SumPercentages(items, i) ==
    IF i = 0 THEN 0 ELSE SumPercentages(items, i - 1) + items[i].percentage

\* C25: getAllocation fails only on an arithmetic overflow; otherwise it
\* returns one item per supported asset with the asset's balance and its
\* share in basis points rounded down: every share is 0 when the total is 0,
\* and when the total is positive the shares sum to at most 10,000 and to
\* more than 10,000 minus the number of assets
C25_Allocation ==
    LET len   == Len(supportedAssets)
        total == SumBalances(len)
        items == getAllocation.items
    IN
    IF getAllocation.panic
    THEN \/ total >= UintMod
         \/ \E a \in Assets : assetBalances[a] > (UintMod - 1) \div 10000
    ELSE /\ Len(items) = len
         /\ \A i \in 1..len :
               /\ items[i].asset = supportedAssets[i]
               /\ items[i].amount = assetBalances[supportedAssets[i]]
               /\ items[i].percentage * total <= items[i].amount * 10000
               /\ total > 0 => items[i].amount * 10000 < (items[i].percentage + 1) * total
               /\ total = 0 => items[i].percentage = 0
         /\ total > 0 =>
               /\ SumPercentages(items, len) <= 10000
               /\ SumPercentages(items, len) > 10000 - len

\* C25 as stated: the shares sum to exactly 10,000 when the total is
\* positive and every share is 0 when it is 0
C25_AsStated ==
    LET len   == Len(supportedAssets)
        total == SumBalances(len)
        items == getAllocation.items
    IN
    /\ ~getAllocation.panic
    /\ total > 0 => SumPercentages(items, len) = 10000
    /\ total = 0 => \A i \in 1..len : items[i].percentage = 0

\* three assets of balances 3, 3 and 1: the shares sum to 9,998
C25_Witness ==
    /\ Len(supportedAssets) = 3
    /\ SumBalances(3) = 7
    /\ ~getAllocation.panic
    /\ SumPercentages(getAllocation.items, 3) = 9998

\* C26: supportedAssets never lists an asset twice and starts with the native
\* sentinel; addSupportedAsset of an asset already listed, the sentinel
\* included, leaves the storage as it was, and the list changes only by
\* appending an asset that was not listed
C26_NoDuplicateAssets ==
    /\ [](/\ supportedAssets[1] = ZERO
          /\ \A i, j \in 1..Len(supportedAssets) :
                i # j => supportedAssets[i] # supportedAssets[j])
    /\ [][\A s \in Accounts, token \in Range(supportedAssets) :
             addSupportedAsset(s, token) => UNCHANGED storage]_vars
    /\ [][supportedAssets' # supportedAssets =>
             \E token \in Assets \ Range(supportedAssets) :
                supportedAssets' = Append(supportedAssets, token)]_vars

\* every asset is listed: each further addSupportedAsset names a listed asset
C26_Witness ==
    /\ Len(supportedAssets) = Cardinality(Assets)
    /\ Range(supportedAssets) = Assets

\* C27: no credit of amount 0 goes through: the log of a transaction never
\* holds a Deposit event with amount 0
C27_NoZeroDeposit ==
    \A i \in 1..Len(emitted) :
        emitted[i][1] = "Deposit" => emitted[i][3] # 0

\* C28: while the vault is paused no step increases a tracked balance and no
\* action goes from unexecuted to executed
C28_PausedFreezes ==
    [][paused =>
          /\ \A a \in Assets : assetBalances'[a] <= assetBalances[a]
          /\ \A id \in DOMAIN pendingActions \cap DOMAIN pendingActions' :
                pendingActions'[id].executed => pendingActions[id].executed]_vars

\* C29: emergencyWithdraw moves funds out only when some stored action
\* carries the approvals of all ownerCount owners
C29_UnanimousWithdraw ==
    [][(/\ \E a \in Assets : assetBalances'[a] < assetBalances[a]
        /\ Len(emitted') > 0
        /\ emitted'[Len(emitted')][1] = "EmergencyWithdraw")
       => \E id \in DOMAIN pendingActions :
             pendingActions[id].approvals >= ownerCount]_vars

\* C30: emergencyWithdraw fails when the caller does not hold OWNER_ROLE and
\* when the amount exceeds the tracked balance of the asset; a step that ends
\* with the event EmergencyWithdraw(token, to, amount) takes exactly amount
\* from the balance of token, which covered it, and leaves the other
\* balances, the actions, the approvals and the rest of the storage alone
C30_EmergencyWithdraw ==
    /\ [](\A s \in Accounts, token \in Assets, delivered \in BOOLEAN :
             \A amount \in {0, assetBalances[token]}
                            \cup {a \in {assetBalances[token] + 1} : a < UintMod} :
                (~hasRole(OWNER_ROLE, s) \/ amount > assetBalances[token])
                => LET err == emergencyWithdrawError(s, token, amount, delivered) IN
                   /\ err # "ok"
                   /\ (~entered =>
                         err = IF ~hasRole(OWNER_ROLE, s) THEN "Unauthorized"
                               ELSE "InsufficientBalance"))
    /\ [][(/\ ~reverted'
            /\ (emitted' # emitted \/ assetBalances' # assetBalances)
            /\ Len(emitted') > 0
            /\ emitted'[Len(emitted')][1] = "EmergencyWithdraw")
           => LET e == emitted'[Len(emitted')] IN
              /\ e[4] <= assetBalances[e[2]]
              /\ assetBalances' = [assetBalances EXCEPT ![e[2]] = @ - e[4]]
              /\ \E s \in Senders : hasRole(OWNER_ROLE, s)
              /\ UNCHANGED <<roles, approvalThreshold, ownerCount, pendingActions,
                             actionApprovals, supportedAssets, approvedStrategies,
                             paused>>]_vars

\* an owner has withdrawn the whole balance of a token next to a native
\* balance that stayed
C30_Witness ==
    /\ emitted = <<<<"EmergencyWithdraw", "tok", "o2", MaxAssetBalance>>>>
    /\ assetBalances["tok"] = 0
    /\ assetBalances[ZERO] = 1
    /\ assetBalances["tk2"] = 2

\* C31: a step that ends with the event Deposit(asset, a, depositor) raises
\* the tracked balance of the asset by exactly a, without wrap-around, and
\* leaves the other balances, the actions and the roles as they were
C31_DepositExact ==
    [][(/\ ~reverted'
        /\ (emitted' # emitted \/ assetBalances' # assetBalances)
        /\ Len(emitted') > 0
        /\ emitted'[Len(emitted')][1] = "Deposit"
        /\ emitted'[Len(emitted')][3] > 0)
       => LET e == emitted'[Len(emitted')] IN
          /\ assetBalances'[e[2]] = assetBalances[e[2]] + e[3]
          /\ \A a \in Assets \ {e[2]} : assetBalances'[a] = assetBalances[a]
          /\ UNCHANGED <<roles, pendingActions, actionApprovals>>]_vars

\* the preconditions of executeAction on the stored action
Executable(id) ==
    LET action == ActionAt(id) IN
    /\ action.proposedAt # 0
    /\ ~action.executed
    /\ action.approvals >= approvalThreshold
    /\ now >= action.executionTime
    /\ action.target = ZERO \/ action.target \in approvedStrategies

\* C32: while the vault is not paused and no executeAction is open, every
\* check of executeAction passes for a stored unexecuted action with
\* approvals >= approvalThreshold, now >= executionTime and a target that is
\* the zero address or whitelisted; the call that passes them marks the
\* action executed whenever the vault holds the value to forward
C32_Enabledness ==
    /\ [](\A id \in DOMAIN pendingActions :
             (Executable(id) /\ ~paused /\ ~entered) => executeActionError(id) = "ok")
    /\ [][\A id \in DOMAIN pendingActions :
             (Executable(id) /\ ~paused /\ ~entered
                 /\ ActionAt(id).value <= nativeHeld
                 /\ \E s \in Senders : executeAction(s, id))
             => pendingActions'[id].executed]_vars

\* C32 as stated: the checks pass whenever the action is approved, past its
\* executionTime, aimed at an allowed target and covered by the balance
C32_AsStated ==
    \A id \in DOMAIN pendingActions :
        (Executable(id) /\ ActionAt(id).value <= assetBalances[ZERO])
        => executeActionError(id) = "ok"

\* a time-locked action executed at the very end of its delay
C32_Witness ==
    \E id \in DOMAIN pendingActions :
        /\ pendingActions[id].executed
        /\ pendingActions[id].value > 0
        /\ pendingActions[id].executionTime = pendingActions[id].proposedAt + TIME_LOCK_DELAY
        /\ now = pendingActions[id].executionTime
        /\ ForwardedCalls(id) = 1
        /\ ~frame.open

\* the preconditions of the action that fail, in the order NotFound,
\* AlreadyExecuted, InsufficientApprovals, TimeLockNotExpired,
\* UnauthorizedStrategy
FailedPreconditions(id) ==
    LET action == ActionAt(id) IN
    SelectSeq(<<<<action.proposedAt = 0, "ActionNotFound">>,
                <<action.proposedAt # 0 /\ action.executed, "ActionAlreadyExecuted">>,
                <<action.proposedAt # 0 /\ action.approvals < approvalThreshold,
                  "InsufficientApprovals">>,
                <<action.proposedAt # 0 /\ now < action.executionTime,
                  "TimeLockNotExpired">>,
                <<action.proposedAt # 0 /\ action.target # ZERO
                     /\ action.target \notin approvedStrategies,
                  "UnauthorizedStrategy">> >>,
              LAMBDA c : c[1])

\* C33: on a vault that is not paused, outside an open executeAction, the
\* error of executeAction is the first failing precondition in the order
\* NotFound, AlreadyExecuted, InsufficientApprovals, TimeLockNotExpired,
\* UnauthorizedStrategy, and there is none exactly when none fails; on a
\* paused vault the error is EnforcedPause and inside an open executeAction
\* it is ReentrancyGuardReentrantCall, whatever the action
C33_CheckOrder ==
    \A id \in KnownIds :
        LET failed == FailedPreconditions(id) IN
        executeActionError(id) =
           IF entered THEN "ReentrancyGuardReentrantCall"
           ELSE IF paused THEN "EnforcedPause"
           ELSE IF Len(failed) = 0 THEN "ok"
           ELSE failed[1][2]

\* C33 as stated: the error is always the first failing one of the five
C33_AsStated ==
    \A id \in KnownIds :
        LET failed == FailedPreconditions(id) IN
        executeActionError(id) = IF Len(failed) = 0 THEN "ok" ELSE failed[1][2]

\* three preconditions fail at once and the first of them is reported
C33_Witness ==
    \E id \in DOMAIN pendingActions :
        /\ Len(FailedPreconditions(id)) = 3
        /\ FailedPreconditions(id)[3][2] = "UnauthorizedStrategy"
        /\ executeActionError(id) = "InsufficientApprovals"

\* C34: outside a forwarded call the approvals counter of a stored action
\* never decreases, and a step that ends with ActionApproved(id, approver, n)
\* raises the counter of id by one to n
C34_ApprovalsGrow ==
    [][(~frame.open /\ ~frame'.open) =>
          /\ \A id \in DOMAIN pendingActions :
                pendingActions'[id].approvals >= pendingActions[id].approvals
          /\ (/\ pendingActions' # pendingActions
              /\ Len(emitted') > 0
              /\ emitted'[Len(emitted')][1] = "ActionApproved")
             => LET e == emitted'[Len(emitted')] IN
                /\ pendingActions'[e[2]].approvals = pendingActions[e[2]].approvals + 1
                /\ e[4] = pendingActions'[e[2]].approvals]_vars

\* C35: the approvals counter of every stored action is the number of
\* accounts whose approval flag is set for it
C35_CountMatchesApprovers ==
    \A id \in DOMAIN pendingActions :
        pendingActions[id].approvals = Cardinality(ApprovedBy(id))

\* C36: when an action goes from unexecuted to executed, at least
\* approvalThreshold of the accounts that approved it hold OWNER_ROLE
C36_ApproversStillOwners ==
    [][\A id \in DOMAIN pendingActions \cap DOMAIN pendingActions' :
          (~pendingActions[id].executed /\ pendingActions'[id].executed)
          => Cardinality(ApprovedBy(id) \cap roles[OWNER_ROLE]) >= approvalThreshold]_vars

\* what the step adds to the native ledger according to the event that
\* closes its log: the amount of a native deposit, minus the value of an
\* executed action, minus the amount of a native emergency withdrawal
NativeDelta ==
    IF emitted' = emitted /\ assetBalances' = assetBalances THEN 0
    ELSE IF Len(emitted') = 0 THEN 0
    ELSE LET e == emitted'[Len(emitted')] IN
         IF e[1] = "Deposit" /\ e[2] = ZERO THEN e[3]
         ELSE IF e[1] = "ActionExecuted" THEN 0 - e[2][3]
         ELSE IF e[1] = "EmergencyWithdraw" /\ e[2] = ZERO THEN 0 - e[4]
         ELSE 0

\* C37: the tracked native balance is the sum of the native deposits minus
\* the values of the executed actions minus the native emergency
\* withdrawals: every committed step moves it by exactly that step's
\* deposit, value or withdrawal, and never below zero
C37_NativeConservation ==
    [][~reverted' =>
          /\ assetBalances[ZERO] + NativeDelta >= 0
          /\ assetBalances'[ZERO] = assetBalances[ZERO] + NativeDelta]_vars

\* C38: outside a forwarded call, a stored action that meets the approvals,
\* the time-lock and the whitelist keeps meeting them until it is executed
C38_StaysExecutable ==
    [][(~frame.open /\ ~frame'.open) =>
          \A id \in DOMAIN pendingActions :
             Executable(id) => (Executable(id)' \/ pendingActions'[id].executed)]_vars

\* C39: executeAction does not depend on its caller: every step that marks
\* an action executed is the step executeAction(actionId) takes for each
\* account that can send it, whatever roles the account holds or lacks
C39_CallerIndependent ==
    [][\A id \in DOMAIN pendingActions \cap DOMAIN pendingActions' :
          (~pendingActions[id].executed /\ pendingActions'[id].executed)
          => \A s \in Senders : executeAction(s, id)]_vars

\* an action has been executed while some account held no role at all
C39_Witness ==
    /\ \E id \in DOMAIN pendingActions :
          pendingActions[id].executed /\ ForwardedCalls(id) = 1
    /\ \E a \in Accounts : \A r \in Roles : ~hasRole(r, a)
    /\ \E a \in Accounts : hasRole(EXECUTOR_ROLE, a)
    /\ Len(emitted) > 0
    /\ emitted[Len(emitted)][1] = "ActionExecuted"

====
